---- MODULE Spec2Model ----
(***************************************************************************)
(* The AI course generator of the E-Learning server                        *)
(* (server/controllers/aiController.js): the category classifier, the      *)
(* deterministic outline generator, the Gemini adapter, generateCourse     *)
(* with its fallback, and saveCourse with its three dependent writes; and  *)
(* the AICourse page of the client, which posts to both handlers, falls    *)
(* back to its own copy of the generator, and redirects after a save.      *)
(*                                                                         *)
(* JavaScript strings are TLA+ strings; the empty string stands for every  *)
(* falsy value of a string field (undefined, null, "").  A duration is a   *)
(* natural number, 0 standing for a missing one.                           *)
(***************************************************************************)
EXTENDS Naturals, Sequences, FiniteSets, TLC

VARIABLES
  cTopic,      \* classifier harness: the string handed to determineCourseCategory
  cCategory,   \* classifier harness: the result, "" before the call
  cAgain,      \* classifier harness: the result of classifying cCategory, "" before
  gReq,        \* generateCourse, per request: req.body
  gPc,         \* generateCourse, per request: position of the handler
  gAI,         \* generateCourse, per request: what model.generateContent answered
  gRes,        \* generateCourse, per request: the response sent (status 0: none yet)
  gAICalls,    \* generateCourse, per request: calls of model.generateContent
  gMockRuns,   \* generateCourse, per request: runs of the fallback branch
  aiCourses,   \* the AICourse collection, in the order of creation
  courses,     \* the Courses collection, in the order of creation
  lectures,    \* the Lecture collection, in the order of creation
  sReq,        \* saveCourse, per call: req.body
  sPc,         \* saveCourse, per call: position of the handler
  sCourseId,   \* saveCourse, per call: regularCourse._id (0: not created)
  sNext,       \* saveCourse, per call: index of the module the loop is at
  sLog,        \* saveCourse, per call: the create calls issued so far, in order
  sRes,        \* saveCourse, per call: the response sent (status 0: none yet)
  cPc,         \* AICourse page: "unmounted", "idle", "awaitGen", "awaitSave", "gone"
  cUser,       \* AICourse page: user._id of the user prop
  cForm,       \* AICourse page: the courseName, duration and difficulty states
  cLoading,    \* AICourse page: the loading state
  cGenerated,  \* AICourse page: the generatedCourse state (shown FALSE: null)
  cToast,      \* AICourse page: the last toast
  cLocation,   \* AICourse page: the course id of window.location.href (0: not set)
  cSubmits,    \* AICourse page: generate requests posted so far
  cSent,       \* AICourse page, per generate request: the body posted
  cOutcome,    \* AICourse page, per generate request: how its axios.post settled
  cSaves,      \* AICourse page: save requests posted so far
  cSaveSent,   \* AICourse page, per save request: the body posted
  cSaveOutcome \* AICourse page, per save request: how its axios.post settled

classifyVars == <<cTopic, cCategory, cAgain>>
genVars == <<gReq, gPc, gAI, gRes, gAICalls, gMockRuns>>
storeVars == <<aiCourses, courses, lectures>>
saveVars == <<sReq, sPc, sCourseId, sNext, sLog, sRes>>
clientVars == <<cPc, cUser, cForm, cLoading, cGenerated, cToast, cLocation, cSubmits,
                cSent, cOutcome, cSaves, cSaveSent, cSaveOutcome>>
vars == <<classifyVars, genVars, storeVars, saveVars, clientVars>>

----------------------------------------------------------------------------
(* Bounds                                                                  *)

\* longest generated topic of the classifier harness
MaxTopicLen == 5
\* largest duration (weeks) a generate request carries
MaxDuration == 12
\* most modules of a curriculum handed to saveCourse
MaxModules == 4

----------------------------------------------------------------------------
(* Strings                                                                 *)

UpperToLower ==
  [A |-> "a", B |-> "b", C |-> "c", D |-> "d", E |-> "e", F |-> "f", G |-> "g",
   H |-> "h", I |-> "i", J |-> "j", K |-> "k", L |-> "l", M |-> "m", N |-> "n",
   O |-> "o", P |-> "p", Q |-> "q", R |-> "r", S |-> "s", T |-> "t", U |-> "u",
   V |-> "v", W |-> "w", X |-> "x", Y |-> "y", Z |-> "z"]

lowerChar(c) == IF c \in DOMAIN UpperToLower THEN UpperToLower[c] ELSE c

RECURSIVE lowerFrom(_, _)
\* the characters of s from position i on, each in lower case
lowerFrom(s, i) ==
  IF i > Len(s) THEN ""
  ELSE lowerChar(SubSeq(s, i, i)) \o lowerFrom(s, i + 1)

\* String.prototype.toLowerCase, character by character
toLowerCase(s) == lowerFrom(s, 1)

\* String.prototype.includes: k occurs in s as a contiguous substring
includes(s, k) ==
  \E i \in 0..(Len(s) - Len(k)) : SubSeq(s, i + 1, i + Len(k)) = k

----------------------------------------------------------------------------
(* Category classifier                                                     *)

\* the if / else-if chain over the lower-cased name
categoryOfLower(courseLower) ==
  IF \/ includes(courseLower, "programming")
     \/ includes(courseLower, "coding")
     \/ includes(courseLower, "development")
     \/ includes(courseLower, "javascript")
     \/ includes(courseLower, "python")
     \/ includes(courseLower, "java")
     \/ includes(courseLower, "web")
  THEN "Programming"
  ELSE IF \/ includes(courseLower, "design")
          \/ includes(courseLower, "ui")
          \/ includes(courseLower, "ux")
  THEN "Design"
  ELSE IF \/ includes(courseLower, "business")
          \/ includes(courseLower, "marketing")
          \/ includes(courseLower, "management")
  THEN "Business"
  ELSE IF \/ includes(courseLower, "data")
          \/ includes(courseLower, "machine learning")
          \/ includes(courseLower, "ai")
          \/ includes(courseLower, "analytics")
  THEN "Data Science"
  ELSE "Other"

\* the chain with the Design group tested before the Programming group
determineCourseCategory_DesignFirst(courseName) ==
  LET courseLower == toLowerCase(courseName) IN
  IF \/ includes(courseLower, "design")
     \/ includes(courseLower, "ui")
     \/ includes(courseLower, "ux")
  THEN "Design"
  ELSE categoryOfLower(courseLower)

\* the chain applied to the name as given, not lower-cased
determineCourseCategory_CaseSensitive(courseName) == categoryOfLower(courseName)

determineCourseCategory(courseName) == categoryOfLower(toLowerCase(courseName))

----------------------------------------------------------------------------
(* Deterministic outline generator                                         *)

Max(a, b) == IF a >= b THEN a ELSE b

\* Math.ceil(a / b) for naturals a and b > 0
CeilDiv(a, b) == (a + b - 1) \div b

introTitles == <<"Introduction to", "Fundamentals of", "Getting Started with">>
intermediateTitles == <<"Advanced Concepts in", "Practical Applications of", "Deep Dive into">>
advancedTitles == <<"Mastering", "Expert Techniques for", "Professional">>

\* the first title taken from introTitles[1] instead of introTitles[0]
getModuleTitle_OffByOne(courseName, moduleIndex) ==
  IF moduleIndex = 0 THEN introTitles[2] \o " " \o courseName
  ELSE IF moduleIndex = 1 THEN introTitles[3] \o " " \o courseName \o " Development"
  ELSE IF moduleIndex = 2 THEN intermediateTitles[1] \o " " \o courseName
  ELSE IF moduleIndex = 3 THEN intermediateTitles[2] \o " " \o courseName
  ELSE advancedTitles[1] \o " " \o courseName

\* the titles after the fourth taken in turn from advancedTitles
getModuleTitle_AdvancedInTurn(courseName, moduleIndex) ==
  IF moduleIndex = 0 THEN introTitles[1] \o " " \o courseName
  ELSE IF moduleIndex = 1 THEN introTitles[3] \o " " \o courseName \o " Development"
  ELSE IF moduleIndex = 2 THEN intermediateTitles[1] \o " " \o courseName
  ELSE IF moduleIndex = 3 THEN intermediateTitles[2] \o " " \o courseName
  ELSE advancedTitles[((moduleIndex - 4) % 3) + 1] \o " " \o courseName

\* moduleIndex is the 0-based index of the JavaScript loop
getModuleTitle(courseName, moduleIndex) ==
  IF moduleIndex = 0 THEN introTitles[1] \o " " \o courseName
  ELSE IF moduleIndex = 1 THEN introTitles[3] \o " " \o courseName \o " Development"
  ELSE IF moduleIndex = 2 THEN intermediateTitles[1] \o " " \o courseName
  ELSE IF moduleIndex = 3 THEN intermediateTitles[2] \o " " \o courseName
  ELSE advancedTitles[1] \o " " \o courseName

beginnerTopics ==
  <<"Understanding the basics", "Core principles and concepts",
    "Setting up your environment", "Your first project",
    "Best practices for beginners", "Common mistakes to avoid">>

intermediateTopics ==
  <<"Advanced techniques", "Optimizing your workflow",
    "Building complex projects", "Integration with other systems",
    "Performance considerations", "Testing and debugging">>

advancedTopics ==
  <<"Expert-level strategies", "Cutting-edge methodologies",
    "Enterprise-scale implementation", "Architecture and design patterns",
    "Performance optimization", "Advanced troubleshooting">>

\* every difficulty given the beginner's count
topicCount_Four(difficulty) == 4

topicCount(difficulty) ==
  IF difficulty = "beginner" THEN 4
  ELSE IF difficulty = "intermediate" THEN 5 ELSE 6

generateTopics(courseName, moduleIndex, difficulty) ==
  LET topicPool == IF difficulty = "beginner" THEN beginnerTopics
                   ELSE IF difficulty = "intermediate" THEN intermediateTopics
                   ELSE advancedTopics
  IN [i \in 1..topicCount(difficulty) |-> topicPool[i] \o " for " \o courseName]

DigitOf == <<"1", "2", "3", "4", "5", "6", "7", "8", "9">>

\* `${n}` for the module numbers the generator can reach
NumStr(n) == IF n <= 9 THEN DigitOf[n] ELSE "1" \o (<<"0">> \o DigitOf)[n - 9]

weeksPerModule(duration) == Max(1, duration \div 4)

\* the count without its floor of 3
moduleCount_NoFloor(duration) == CeilDiv(duration, weeksPerModule(duration))

moduleCount(duration) == Max(3, CeilDiv(duration, weeksPerModule(duration)))

generateMockOutline(courseName, duration, difficulty) ==
  [k \in 1..moduleCount(duration) |->
     [title |-> "Module " \o NumStr(k) \o ": " \o getModuleTitle(courseName, k - 1),
      description |-> "This module covers essential concepts related to "
                        \o toLowerCase(getModuleTitle(courseName, k - 1)) \o ".",
      topics |-> generateTopics(courseName, k - 1, difficulty)]]

----------------------------------------------------------------------------
(* The Gemini adapter                                                      *)

\* A parsed JSON module of the AI answer: kind "null" is the JSON value null,
\* topicsKind tells whether "topics" is an array, a string or absent.
AIModule(t, d, tk, ts) ==
  [kind |-> "object", title |-> t, description |-> d, topicsKind |-> tk, topics |-> ts]

NullModule == [kind |-> "null", title |-> "", description |-> "",
               topicsKind |-> "absent", topics |-> <<>>]

FourTopics == <<"Topic 1", "Topic 2", "Topic 3", "Topic 4">>

GoodModules ==
  <<AIModule("Basics", "The basics", "array", FourTopics),
    AIModule("Practice", "Hands on", "array", FourTopics),
    AIModule("Project", "A project", "array", FourTopics)>>

\* A parsed JSON object of the AI answer: "" is an absent string field,
\* outlineKind tells whether "outline" is an array, a string or absent.
AIData(t, d, c, ok, o) ==
  [title |-> t, description |-> d, category |-> c, outlineKind |-> ok, outline |-> o]

\* The JSON objects the external service answers with in this model
AIValues ==
  { AIData("AI Course", "An AI made course.", "Technology", "array", GoodModules),
    AIData("AI Course", "An AI made course.", "", "array", GoodModules),
    AIData("", "An AI made course.", "Technology", "array", GoodModules),
    AIData("AI Course", "", "Technology", "array", GoodModules),
    AIData("AI Course", "An AI made course.", "Technology", "absent", <<>>),
    AIData("AI Course", "An AI made course.", "Technology", "string", <<>>),
    AIData("AI Course", "An AI made course.", "Technology", "array", <<>>),
    AIData("AI Course", "An AI made course.", "Technology", "array",
           <<AIModule("Basics", "The basics", "absent", <<>>)>>),
    AIData("AI Course", "An AI made course.", "Technology", "array",
           <<AIModule("Basics", "The basics", "string", <<>>),
             AIModule("Practice", "Hands on", "array", <<>>)>>),
    AIData("AI Course", "An AI made course.", "Technology", "array",
           GoodModules \o GoodModules \o <<GoodModules[1]>>),
    AIData("AI Course", "An AI made course.", "Technology", "array",
           <<GoodModules[1], NullModule>>) }

Quote == "\""

jsonString(s) == Quote \o s \o Quote

RECURSIVE jsonJoin(_)
\* the elements of a sequence of JSON texts, separated by commas
jsonJoin(parts) ==
  IF Len(parts) = 0 THEN ""
  ELSE IF Len(parts) = 1 THEN parts[1]
  ELSE parts[1] \o "," \o jsonJoin(Tail(parts))

jsonField(name, text) == jsonString(name) \o ":" \o text

\* the fields of `all` (pairs <<present, text>>) that are present
RECURSIVE presentFields(_)
presentFields(all) ==
  IF Len(all) = 0 THEN <<>>
  ELSE (IF all[1][1] THEN <<all[1][2]>> ELSE <<>>) \o presentFields(Tail(all))

jsonModule(m) ==
  IF m.kind = "null" THEN "null"
  ELSE "{" \o jsonJoin(presentFields(
         << <<m.title # "", jsonField("title", jsonString(m.title))>>,
            <<m.description # "", jsonField("description", jsonString(m.description))>>,
            <<m.topicsKind = "array",
              jsonField("topics",
                "[" \o jsonJoin([i \in 1..Len(m.topics) |-> jsonString(m.topics[i])]) \o "]")>>,
            <<m.topicsKind = "string", jsonField("topics", jsonString("none"))>> >>)) \o "}"

\* The JSON text of an AI object (what JSON.parse reads back as that object)
jsonText(v) ==
  "{" \o jsonJoin(presentFields(
         << <<v.title # "", jsonField("title", jsonString(v.title))>>,
            <<v.description # "", jsonField("description", jsonString(v.description))>>,
            <<v.category # "", jsonField("category", jsonString(v.category))>>,
            <<v.outlineKind = "array",
              jsonField("outline",
                "[" \o jsonJoin([i \in 1..Len(v.outline) |-> jsonModule(v.outline[i])]) \o "]")>>,
            <<v.outlineKind = "string", jsonField("outline", jsonString("none"))>> >>)) \o "}"

\* The raw texts the external service answers with in this model
AITexts ==
  { jsonText(v) : v \in AIValues }
  \cup { "Here is your course: " \o jsonText(v) : v \in AIValues }
  \cup { jsonText(v) \o " Enjoy!" : v \in AIValues }
  \cup { jsonText(v) \o " (see {notes} for more)" : v \in AIValues }
  \cup { "I cannot help with that.", "", "}{", "{oops}", "{" }

\* positions of character c in text
positionsOf(text, c) == { i \in 1..Len(text) : SubSeq(text, i, i) = c }

MinOf(S) == CHOOSE x \in S : \A y \in S : x <= y
MaxOf(S) == CHOOSE x \in S : \A y \in S : x >= y

\* the first balanced {...} span of the text instead of the greedy match
jsonMatch_Balanced(text) ==
  LET opens == positionsOf(text, "{")
      first == MinOf(opens)
      depth(i) == Cardinality({j \in first..i : SubSeq(text, j, j) = "{"})
                    - Cardinality({j \in first..i : SubSeq(text, j, j) = "}"})
      closes == IF opens = {} THEN {}
                ELSE {i \in positionsOf(text, "}") :
                        i > first /\ depth(i) = 0 /\ \A j \in first..(i - 1) : depth(j) > 0}
  IN IF closes = {} THEN "" ELSE SubSeq(text, first, MinOf(closes))

\* text.match(/\{[\s\S]*\}/): the span from the first "{" to the last "}" after
\* it; "" (no match) when there is none.  A match is never empty.
jsonMatch(text) ==
  LET opens == positionsOf(text, "{")
      closes == IF opens = {} THEN {}
                ELSE {i \in positionsOf(text, "}") : i > MinOf(opens)}
  IN IF closes = {} THEN "" ELSE SubSeq(text, MinOf(opens), MaxOf(closes))

\* JSON.parse on the spans this model produces: a span is valid JSON exactly when
\* it is the JSON text of one of the AI objects
parses(jsonStr) == \E v \in AIValues : jsonText(v) = jsonStr
JSONparse(jsonStr) == CHOOSE v \in AIValues : jsonText(v) = jsonStr

\* the structure check of the adapter
validStructure(courseData) ==
  /\ courseData.title # ""
  /\ courseData.description # ""
  /\ courseData.outlineKind = "array"

NoCourse == [title |-> "", description |-> "", duration |-> 0, difficulty |-> "",
             category |-> "", outline |-> <<>>]

\* what generateCourseWithGemini does with the text of the answer:
\* [ok |-> TRUE, course |-> ...] or [ok |-> FALSE, error |-> ...] for a throw
generateCourseWithGemini(text, courseName, duration, difficulty) ==
  LET jsonStr == jsonMatch(text) IN
  IF jsonStr = "" THEN [ok |-> FALSE, error |-> "ParseError", course |-> NoCourse]
  ELSE IF ~parses(jsonStr) THEN [ok |-> FALSE, error |-> "ParseError", course |-> NoCourse]
  ELSE LET courseData == JSONparse(jsonStr) IN
    IF ~validStructure(courseData)
    THEN [ok |-> FALSE, error |-> "SchemaError", course |-> NoCourse]
    ELSE IF \E i \in 1..Len(courseData.outline) : courseData.outline[i].kind = "null"
    THEN [ok |-> FALSE, error |-> "TypeError", course |-> NoCourse]
    ELSE [ok |-> TRUE, error |-> "",
          course |->
            [title |-> courseData.title,
             description |-> courseData.description,
             duration |-> duration,
             difficulty |-> difficulty,
             category |-> IF courseData.category # "" THEN courseData.category
                          ELSE determineCourseCategory(courseName),
             outline |-> [i \in 1..Len(courseData.outline) |->
                           [title |-> courseData.outline[i].title,
                            description |-> courseData.outline[i].description,
                            topics |-> IF courseData.outline[i].topicsKind = "array"
                                       THEN courseData.outline[i].topics ELSE <<>>]]]]

----------------------------------------------------------------------------
(* The user store                                                          *)

\* the users that exist, with their display names
UserNames == [u1 |-> "Ada", u2 |-> "Bob"]

\* User.findById: the user's name, "" (null) when there is none
findUserById(userId) == IF userId \in DOMAIN UserNames THEN UserNames[userId] ELSE ""

----------------------------------------------------------------------------
(* generateCourse                                                          *)

\* the generate requests followed; each runs its own call of the handler
GenRequests == {1, 2}

GenTopics == {"", "Machine Learning for Beginners", "Web Design", "Cooking"}
GenDifficulties == {"", "beginner", "intermediate", "advanced"}
GenUserIds == {"", "u1", "u404"}

NoBody == [courseName |-> "", duration |-> 0, difficulty |-> "", userId |-> ""]
NoResponse == [status |-> 0, tier |-> "none", course |-> NoCourse]
NoAnswer == [kind |-> "none", text |-> "", error |-> ""]

\* the fallback curriculum of generateCourse's catch branch
mockCourse(courseName, duration, difficulty) ==
  [title |-> courseName,
   description |-> "A comprehensive " \o difficulty \o " level course on " \o courseName
                     \o " designed to be completed in " \o NumStr(duration) \o " weeks.",
   duration |-> duration,
   difficulty |-> difficulty,
   category |-> determineCourseCategory(courseName),
   outline |-> generateMockOutline(courseName, duration, difficulty)]

\* the handler starts on req.body and runs to its first await (User.findById)
GenerateCourse_Accept(r, body) ==
  /\ gPc[r] = "idle"
  /\ gReq' = [gReq EXCEPT ![r] = body]
  /\ IF body.courseName = "" \/ body.duration = 0 \/ body.difficulty = ""
     THEN /\ gPc' = [gPc EXCEPT ![r] = "done"]
          /\ gRes' = [gRes EXCEPT ![r] = [status |-> 400, tier |-> "none",
                                          course |-> NoCourse]]
     ELSE /\ gPc' = [gPc EXCEPT ![r] = "findUser"]
          /\ gRes' = [gRes EXCEPT ![r] = NoResponse]
  /\ gAI' = [gAI EXCEPT ![r] = NoAnswer]
  /\ gAICalls' = [gAICalls EXCEPT ![r] = 0]
  /\ gMockRuns' = [gMockRuns EXCEPT ![r] = 0]

\* a request arrives with some body
GenerateCourse_Receive(r) ==
  /\ \E cn \in GenTopics, d \in 0..MaxDuration, df \in GenDifficulties, u \in GenUserIds :
       GenerateCourse_Accept(r, [courseName |-> cn, duration |-> d, difficulty |-> df,
                                 userId |-> u])
  /\ UNCHANGED <<classifyVars, storeVars, saveVars, clientVars>>

\* User.findById resolves; with a user the handler runs on to the await of
\* model.generateContent
GenerateCourse_FindUser(r) ==
  /\ gPc[r] = "findUser"
  /\ IF findUserById(gReq[r].userId) = ""
     THEN /\ gPc' = [gPc EXCEPT ![r] = "done"]
          /\ gRes' = [gRes EXCEPT ![r] = [status |-> 404, tier |-> "none",
                                          course |-> NoCourse]]
          /\ UNCHANGED gAICalls
     ELSE /\ gPc' = [gPc EXCEPT ![r] = "awaitAI"]
          /\ gAICalls' = [gAICalls EXCEPT ![r] = @ + 1]
          /\ UNCHANGED gRes
  /\ UNCHANGED <<gReq, gAI, gMockRuns, classifyVars, storeVars, saveVars, clientVars>>

\* the adapter's error surfaced as a 500 instead of being caught
GenerateCourse_Fallback_Surface(r, answer) ==
  /\ gAI' = [gAI EXCEPT ![r] = answer]
  /\ gMockRuns' = gMockRuns
  /\ gRes' = [gRes EXCEPT ![r] = [status |-> 500, tier |-> "none", course |-> NoCourse]]
  /\ gPc' = [gPc EXCEPT ![r] = "done"]

\* the catch (aiError) branch: the fallback curriculum, answered with 200
GenerateCourse_Fallback(r, answer) ==
  /\ gAI' = [gAI EXCEPT ![r] = answer]
  /\ gMockRuns' = [gMockRuns EXCEPT ![r] = @ + 1]
  /\ gRes' = [gRes EXCEPT ![r] =
                [status |-> 200, tier |-> "mock",
                 course |-> mockCourse(gReq[r].courseName, gReq[r].duration,
                                       gReq[r].difficulty)]]
  /\ gPc' = [gPc EXCEPT ![r] = "done"]

\* model.generateContent resolves with one of texts; the adapter extracts,
\* parses and validates it; the handler answers with its course or falls back
GenerateCourse_AIAnswersWith(r, texts) ==
  /\ gPc[r] = "awaitAI"
  /\ gAI[r].kind = "none"
  /\ \E text \in texts :
       LET res == generateCourseWithGemini(text, gReq[r].courseName, gReq[r].duration,
                                           gReq[r].difficulty)
       IN IF res.ok
          THEN /\ gAI' = [gAI EXCEPT ![r] = [kind |-> "text", text |-> text, error |-> ""]]
               /\ gRes' = [gRes EXCEPT ![r] = [status |-> 200, tier |-> "ai",
                                               course |-> res.course]]
               /\ gPc' = [gPc EXCEPT ![r] = "done"]
               /\ UNCHANGED gMockRuns
          ELSE GenerateCourse_Fallback(r, [kind |-> "text", text |-> text,
                                           error |-> res.error])
  /\ UNCHANGED <<gReq, gAICalls, classifyVars, storeVars, saveVars, clientVars>>

GenerateCourse_AIAnswers(r) == GenerateCourse_AIAnswersWith(r, AITexts)

\* the call repeated after a rejection, up to three calls, before falling back
GenerateCourse_AIThrows_Retry(r) ==
  /\ gPc[r] = "awaitAI"
  /\ gAI[r].kind = "none"
  /\ IF gAICalls[r] < 3
     THEN /\ gAICalls' = [gAICalls EXCEPT ![r] = @ + 1]
          /\ UNCHANGED <<gPc, gAI, gRes, gMockRuns>>
     ELSE /\ GenerateCourse_Fallback(r, [kind |-> "throw", text |-> "",
                                         error |-> "UpstreamError"])
          /\ UNCHANGED gAICalls
  /\ UNCHANGED <<gReq, classifyVars, storeVars, saveVars, clientVars>>

\* model.generateContent rejects (network, quota, bad key): the handler falls back
GenerateCourse_AIThrows(r) ==
  /\ gPc[r] = "awaitAI"
  /\ gAI[r].kind = "none"
  /\ GenerateCourse_Fallback(r, [kind |-> "throw", text |-> "", error |-> "UpstreamError"])
  /\ UNCHANGED <<gReq, gAICalls, classifyVars, storeVars, saveVars, clientVars>>

\* model.generateContent stays pending: the service will not answer this call.
\* The handler has no timer on the await, so it stays at the await.
GenerateCourse_AISilent(r) ==
  /\ gPc[r] = "awaitAI"
  /\ gAI[r].kind = "none"
  /\ gAI' = [gAI EXCEPT ![r] = [kind |-> "silent", text |-> "", error |-> ""]]
  /\ UNCHANGED <<gReq, gPc, gRes, gAICalls, gMockRuns, classifyVars, storeVars,
                 saveVars, clientVars>>

----------------------------------------------------------------------------
(* saveCourse                                                              *)

\* the concurrent calls of saveCourse
Savers == {1, 2}

SaveModule(k) ==
  [title |-> "Module " \o NumStr(k), description |-> "About part " \o NumStr(k),
   topics |-> <<"Topic 1">>]

\* req.body.course: a curriculum of n modules.  outlineKind "absent" is a
\* body without outline; isAIGenerated is "absent", "true" or "false"; image "",
\* price 0 and createdBy "" are the absent (falsy) ones.
SaveCurriculum(title, n, outlineKind, flag) ==
  [present |-> TRUE, title |-> title, description |-> "A saved course.",
   duration |-> 4, difficulty |-> "beginner", category |-> "Other",
   outlineKind |-> outlineKind, outline |-> [k \in 1..n |-> SaveModule(k)],
   isAIGenerated |-> flag, image |-> "", price |-> 0, createdBy |-> ""]

\* a body without course
NoCurriculum ==
  [present |-> FALSE, title |-> "", description |-> "", duration |-> 0,
   difficulty |-> "", category |-> "", outlineKind |-> "absent", outline |-> <<>>,
   isAIGenerated |-> "absent", image |-> "", price |-> 0, createdBy |-> ""]

\* the bodies of the save requests of this model
SaveBodies ==
  { [course |-> SaveCurriculum("Course", n, "array", "absent"), userId |-> "u1"] :
      n \in 0..MaxModules }
  \cup { [course |-> NoCurriculum, userId |-> "u1"],
         [course |-> SaveCurriculum("Course", 1, "array", "absent"), userId |-> ""],
         [course |-> SaveCurriculum("Course", 1, "array", "absent"), userId |-> "u404"],
         [course |-> SaveCurriculum("Course", 2, "array", "absent"), userId |-> "u2"],
         [course |-> SaveCurriculum("", 1, "array", "absent"), userId |-> "u1"],
         [course |-> SaveCurriculum("Course", 0, "absent", "absent"), userId |-> "u1"],
         [course |-> SaveCurriculum("Course", 1, "array", "false"), userId |-> "u1"],
         [course |-> SaveCurriculum("Course", 1, "array", "true"), userId |-> "u1"],
         [course |-> [SaveCurriculum("Course", 1, "array", "absent")
                        EXCEPT !.createdBy = "u2"],
          userId |-> "u1"] }

NoSaveResponse == [status |-> 0, courseId |-> 0]

\* the log of a call's create calls: one is issued, and later settles as
\* "stored" or "rejected"
Issue(log, op) == Append(log, [op |-> op, result |-> "pending"])
Settle(log, result) == [log EXCEPT ![Len(log)].result = result]

\* the required paths of aiCourseSchema that a body can leave out
aiCourseValid(course) ==
  /\ course.title # ""
  /\ course.description # ""
  /\ course.duration # 0
  /\ course.category # ""
  /\ course.difficulty \in {"", "beginner", "intermediate", "advanced"}

\* the document AICourse.create({...course, createdBy: userId}) stores: the
\* spread copies the body's own fields, createdBy after it replaces the body's,
\* and the schema fills isAIGenerated only when the body has none
aiCourseDocument(id, course, userId, p) ==
  [id |-> id, by |-> p, title |-> course.title, description |-> course.description,
   duration |-> course.duration, difficulty |-> course.difficulty,
   category |-> course.category,
   outline |-> IF course.outlineKind = "array" THEN course.outline ELSE <<>>,
   createdBy |-> userId,
   isAIGenerated |-> IF course.isAIGenerated = "absent" THEN "true"
                     ELSE course.isAIGenerated]

\* the document Courses.create stores
courseDocument(id, course, userName, p) ==
  [id |-> id, by |-> p, title |-> course.title, description |-> course.description,
   image |-> IF course.image # "" THEN course.image ELSE "default_course.jpg",
   price |-> IF course.price # 0 THEN course.price ELSE 0,
   duration |-> course.duration, category |-> course.category,
   createdBy |-> userName]

\* the lecture referring to the course created last by any call
lectureDocument_LatestCourse(id, module, courseId, p) ==
  [id |-> id, by |-> p, title |-> module.title, description |-> module.description,
   video |-> "placeholder.mp4", course |-> Len(courses)]

\* the lecture stored without its course reference
lectureDocument_NoCourse(id, module, courseId, p) ==
  [id |-> id, by |-> p, title |-> module.title, description |-> module.description,
   video |-> "placeholder.mp4", course |-> 0]

\* the document Lecture.create stores for a module
lectureDocument(id, module, courseId, p) ==
  [id |-> id, by |-> p, title |-> module.title, description |-> module.description,
   video |-> "placeholder.mp4", course |-> courseId]

\* the error swallowed: the call answers 201 with whatever identifier it holds
SaveCourse_Fail_Swallow(p) ==
  /\ sRes' = [sRes EXCEPT ![p] = [status |-> 201, courseId |-> sCourseId[p]]]
  /\ sPc' = [sPc EXCEPT ![p] = "done"]

\* the catch branch of saveCourse
SaveCourse_Fail(p) ==
  /\ sRes' = [sRes EXCEPT ![p] = [status |-> 500, courseId |-> 0]]
  /\ sPc' = [sPc EXCEPT ![p] = "done"]

\* the handler starts on req.body and runs to its first await (User.findById)
SaveCourse_Accept(p, body) ==
  /\ sPc[p] = "idle"
  /\ sReq' = [sReq EXCEPT ![p] = body]
  /\ IF ~body.course.present \/ body.userId = ""
     THEN /\ sPc' = [sPc EXCEPT ![p] = "done"]
          /\ sRes' = [sRes EXCEPT ![p] = [status |-> 400, courseId |-> 0]]
     ELSE /\ sPc' = [sPc EXCEPT ![p] = "findUser"]
          /\ UNCHANGED sRes
  /\ UNCHANGED <<sCourseId, sNext, sLog, storeVars>>

\* a request arrives with some body
SaveCourse_Receive(p) ==
  /\ \E body \in SaveBodies : SaveCourse_Accept(p, body)
  /\ UNCHANGED <<classifyVars, genVars, clientVars>>

\* the AI-course document created before the owner is looked up
SaveCourse_FindUser_WriteFirst(p) ==
  /\ sPc[p] = "findUser"
  /\ aiCourses' = Append(aiCourses,
       aiCourseDocument(Len(aiCourses) + 1, sReq[p].course, sReq[p].userId, p))
  /\ IF findUserById(sReq[p].userId) = ""
     THEN /\ sPc' = [sPc EXCEPT ![p] = "done"]
          /\ sRes' = [sRes EXCEPT ![p] = [status |-> 404, courseId |-> 0]]
          /\ UNCHANGED sLog
     ELSE /\ sPc' = [sPc EXCEPT ![p] = "createCourse"]
          /\ sLog' = [sLog EXCEPT ![p] = Issue(Issue(@, "AICourse"), "Courses")]
          /\ UNCHANGED sRes
  /\ UNCHANGED <<sReq, sCourseId, sNext, courses, lectures, classifyVars, genVars, clientVars>>

\* User.findById resolves; with a user the handler issues AICourse.create
SaveCourse_FindUser(p) ==
  /\ sPc[p] = "findUser"
  /\ IF findUserById(sReq[p].userId) = ""
     THEN /\ sPc' = [sPc EXCEPT ![p] = "done"]
          /\ sRes' = [sRes EXCEPT ![p] = [status |-> 404, courseId |-> 0]]
          /\ UNCHANGED sLog
     ELSE /\ sPc' = [sPc EXCEPT ![p] = "createAI"]
          /\ sLog' = [sLog EXCEPT ![p] = Issue(@, "AICourse")]
          /\ UNCHANGED sRes
  /\ UNCHANGED <<sReq, sCourseId, sNext, storeVars, classifyVars, genVars, clientVars>>

\* AICourse.create settles: it rejects a document that fails the schema, may
\* reject for the store's own reasons, and otherwise stores the document; the
\* handler then issues Courses.create
SaveCourse_CreateAI(p) ==
  /\ sPc[p] = "createAI"
  /\ \E stored \in BOOLEAN :
       IF stored /\ aiCourseValid(sReq[p].course)
       THEN /\ aiCourses' = Append(aiCourses,
                 aiCourseDocument(Len(aiCourses) + 1, sReq[p].course, sReq[p].userId, p))
            /\ sPc' = [sPc EXCEPT ![p] = "createCourse"]
            /\ sLog' = [sLog EXCEPT ![p] = Issue(Settle(@, "stored"), "Courses")]
            /\ UNCHANGED sRes
       ELSE /\ SaveCourse_Fail(p)
            /\ sLog' = [sLog EXCEPT ![p] = Settle(@, "rejected")]
            /\ UNCHANGED aiCourses
  /\ UNCHANGED <<sReq, sCourseId, sNext, courses, lectures, classifyVars, genVars, clientVars>>

\* Courses.create settles; on success the handler enters the loop over
\* course.outline: it throws on a missing outline, answers 201 on an empty one,
\* and otherwise issues Lecture.create for the first module
SaveCourse_CreateCourse(p) ==
  /\ sPc[p] = "createCourse"
  /\ \E stored \in BOOLEAN :
       IF stored
       THEN LET id == Len(courses) + 1
                course == sReq[p].course
            IN /\ courses' = Append(courses,
                    courseDocument(id, course, findUserById(sReq[p].userId), p))
               /\ sCourseId' = [sCourseId EXCEPT ![p] = id]
               /\ IF course.outlineKind # "array"
                  THEN /\ SaveCourse_Fail(p)
                       /\ sLog' = [sLog EXCEPT ![p] = Settle(@, "stored")]
                       /\ UNCHANGED sNext
                  ELSE IF Len(course.outline) = 0
                  THEN /\ sPc' = [sPc EXCEPT ![p] = "done"]
                       /\ sRes' = [sRes EXCEPT ![p] = [status |-> 201, courseId |-> id]]
                       /\ sLog' = [sLog EXCEPT ![p] = Settle(@, "stored")]
                       /\ UNCHANGED sNext
                  ELSE /\ sPc' = [sPc EXCEPT ![p] = "createLecture"]
                       /\ sNext' = [sNext EXCEPT ![p] = 1]
                       /\ sLog' = [sLog EXCEPT ![p] = Issue(Settle(@, "stored"), "Lecture")]
                       /\ UNCHANGED sRes
       ELSE /\ SaveCourse_Fail(p)
            /\ sLog' = [sLog EXCEPT ![p] = Settle(@, "rejected")]
            /\ UNCHANGED <<courses, sCourseId, sNext>>
  /\ UNCHANGED <<sReq, aiCourses, lectures, classifyVars, genVars, clientVars>>

\* Lecture.create settles for the module the loop is at; on success the handler
\* issues the next one, or answers 201 after the last
SaveCourse_CreateLecture(p) ==
  /\ sPc[p] = "createLecture"
  /\ \E stored \in BOOLEAN :
       IF stored
       THEN LET outline == sReq[p].course.outline IN
            /\ lectures' = Append(lectures,
                 lectureDocument(Len(lectures) + 1, outline[sNext[p]], sCourseId[p], p))
            /\ IF sNext[p] = Len(outline)
               THEN /\ sPc' = [sPc EXCEPT ![p] = "done"]
                    /\ sRes' = [sRes EXCEPT ![p] =
                                  [status |-> 201, courseId |-> sCourseId[p]]]
                    /\ sLog' = [sLog EXCEPT ![p] = Settle(@, "stored")]
                    /\ UNCHANGED sNext
               ELSE /\ sNext' = [sNext EXCEPT ![p] = @ + 1]
                    /\ sLog' = [sLog EXCEPT ![p] = Issue(Settle(@, "stored"), "Lecture")]
                    /\ UNCHANGED <<sPc, sRes>>
       ELSE /\ SaveCourse_Fail(p)
            /\ sLog' = [sLog EXCEPT ![p] = Settle(@, "rejected")]
            /\ UNCHANGED <<lectures, sNext>>
  /\ UNCHANGED <<sReq, sCourseId, aiCourses, courses, classifyVars, genVars, clientVars>>

----------------------------------------------------------------------------
(* The AICourse page (client)                                              *)

\* the user props the page is mounted with: a user, and one whose account is gone
ClientUserIds == {"u1", "u404"}

\* the options of the duration and difficulty selects
DurationOptions == {1, 2, 4, 8, 12}
DifficultyOptions == {"beginner", "intermediate", "advanced"}

\* what is typed into the topic input in this model
ClientTopics == {"", "Web Design"}

\* the initial courseName, duration and difficulty states
InitialForm == [courseName |-> "", duration |-> 4, difficulty |-> "beginner"]

NoToast == [kind |-> "none", message |-> ""]

\* how a post settled: by a response with its status, by the timeout, or by a
\* network error; NotSettled while it has not
Settled(kind, status) == [kind |-> kind, status |-> status]
NotSettled == Settled("none", 0)
NoGenerated == [shown |-> FALSE, origin |-> "none", req |-> 0, course |-> NoCourse]

\* the page's own generateMockOutline: the module title is the template
client_generateMockOutline(courseName, duration, difficulty) ==
  [k \in 1..moduleCount(duration) |->
     [title |-> getModuleTitle(courseName, k - 1),
      description |-> "This module covers essential concepts related to "
                        \o toLowerCase(getModuleTitle(courseName, k - 1)) \o ".",
      topics |-> generateTopics(courseName, k - 1, difficulty)]]

\* the page's generateMockCourse on the form values of the submission
generateMockCourse(form) ==
  [title |-> form.courseName,
   description |-> "A comprehensive " \o form.difficulty \o " level course on "
                     \o form.courseName \o " designed to be completed in "
                     \o NumStr(form.duration) \o " weeks.",
   duration |-> form.duration,
   difficulty |-> form.difficulty,
   category |-> determineCourseCategory(form.courseName),
   outline |-> client_generateMockOutline(form.courseName, form.duration,
                                          form.difficulty)]

\* the component is rendered with its user prop
Client_Mount ==
  /\ cPc = "unmounted"
  /\ cPc' = "idle"
  /\ \E u \in ClientUserIds : cUser' = u
  /\ UNCHANGED <<cForm, cLoading, cGenerated, cToast, cLocation, cSubmits, cSent,
                 cOutcome, cSaves, cSaveSent, cSaveOutcome>>
  /\ UNCHANGED <<classifyVars, genVars, storeVars, saveVars>>

\* the onChange handlers: the form is filled in before the first submission
Client_Edit ==
  /\ cPc = "idle"
  /\ cSubmits = 0
  /\ cForm = InitialForm
  /\ cToast = NoToast
  /\ \E cn \in ClientTopics, d \in DurationOptions, df \in DifficultyOptions :
       /\ [courseName |-> cn, duration |-> d, difficulty |-> df] # InitialForm
       /\ cForm' = [courseName |-> cn, duration |-> d, difficulty |-> df]
  /\ UNCHANGED <<cPc, cUser, cLoading, cGenerated, cToast, cLocation, cSubmits, cSent,
                 cOutcome, cSaves, cSaveSent, cSaveOutcome>>
  /\ UNCHANGED <<classifyVars, genVars, storeVars, saveVars>>

\* handleSubmit up to its await: without a topic it only shows an error toast,
\* otherwise it sets loading and posts the form to /generate-course
Client_Submit ==
  /\ cPc = "idle"
  /\ ~cLoading
  /\ cSubmits < Cardinality(GenRequests)
  /\ IF cForm.courseName = ""
     THEN /\ cToast' = [kind |-> "error", message |-> "Please enter a course name"]
          /\ UNCHANGED <<cPc, cLoading, cSubmits, cSent>>
     ELSE /\ cLoading' = TRUE
          /\ cSubmits' = cSubmits + 1
          /\ cSent' = [cSent EXCEPT ![cSubmits + 1] =
                         [courseName |-> cForm.courseName, duration |-> cForm.duration,
                          difficulty |-> cForm.difficulty, userId |-> cUser]]
          /\ cPc' = "awaitGen"
          /\ UNCHANGED cToast
  /\ UNCHANGED <<cUser, cForm, cGenerated, cLocation, cOutcome, cSaves, cSaveSent,
                 cSaveOutcome>>
  /\ UNCHANGED <<classifyVars, genVars, storeVars, saveVars>>

\* the failure of the post reported as an error, with no curriculum set
Client_Fallback_Error(outcome) ==
  /\ cToast' = [kind |-> "error",
                message |-> "Something went wrong while generating the course"]
  /\ cLoading' = FALSE
  /\ cOutcome' = [cOutcome EXCEPT ![cSubmits] = outcome]
  /\ cPc' = "idle"
  /\ UNCHANGED cGenerated

\* the catch (apiError) branch of handleSubmit and the statements after it:
\* the page's own fallback course, reported as a success
Client_Fallback(outcome) ==
  /\ cGenerated' = [shown |-> TRUE, origin |-> "client", req |-> cSubmits,
                    course |-> generateMockCourse(cSent[cSubmits])]
  /\ cToast' = [kind |-> "success", message |-> "Course generated successfully!"]
  /\ cLoading' = FALSE
  /\ cOutcome' = [cOutcome EXCEPT ![cSubmits] = outcome]
  /\ cPc' = "idle"

\* a 200 response of any request posted so far is shown when it arrives, also
\* after the post it answers was ended
Client_GenResponse_Late ==
  /\ cPc \in {"idle", "awaitGen"}
  /\ \E r \in 1..cSubmits :
       /\ gRes[r].status = 200
       /\ cGenerated' = [shown |-> TRUE, origin |-> "server", req |-> r,
                         course |-> gRes[r].course]
       /\ cOutcome' = [cOutcome EXCEPT ![cSubmits] =
                         IF @ = NotSettled THEN Settled("response", 200) ELSE @]
  /\ cToast' = [kind |-> "success", message |-> "Course generated successfully!"]
  /\ cLoading' = FALSE
  /\ cPc' = "idle"
  /\ UNCHANGED <<cUser, cForm, cLocation, cSubmits, cSent, cSaves, cSaveSent,
                 cSaveOutcome>>
  /\ UNCHANGED <<classifyVars, genVars, storeVars, saveVars>>

\* the response of the awaited generate request arrives: a 200 resolves the
\* post and its course is shown, any other status rejects it
Client_GenResponse ==
  /\ cPc = "awaitGen"
  /\ gRes[cSubmits].status # 0
  /\ IF gRes[cSubmits].status = 200
     THEN /\ cGenerated' = [shown |-> TRUE, origin |-> "server", req |-> cSubmits,
                            course |-> gRes[cSubmits].course]
          /\ cToast' = [kind |-> "success", message |-> "Course generated successfully!"]
          /\ cLoading' = FALSE
          /\ cOutcome' = [cOutcome EXCEPT ![cSubmits] = Settled("response", 200)]
          /\ cPc' = "idle"
     ELSE Client_Fallback(Settled("response", gRes[cSubmits].status))
  /\ UNCHANGED <<cUser, cForm, cLocation, cSubmits, cSent, cSaves, cSaveSent,
                 cSaveOutcome>>
  /\ UNCHANGED <<classifyVars, genVars, storeVars, saveVars>>

\* the post's 30 second timeout ends the request before a response arrived
Client_GenTimeout ==
  /\ cPc = "awaitGen"
  /\ Client_Fallback(Settled("timeout", 0))
  /\ UNCHANGED <<cUser, cForm, cLocation, cSubmits, cSent, cSaves, cSaveSent,
                 cSaveOutcome>>
  /\ UNCHANGED <<classifyVars, genVars, storeVars, saveVars>>

\* the post fails without a response (the request or its response is lost)
Client_GenNetworkError ==
  /\ cPc = "awaitGen"
  /\ Client_Fallback(Settled("network", 0))
  /\ UNCHANGED <<cUser, cForm, cLocation, cSubmits, cSent, cSaves, cSaveSent,
                 cSaveOutcome>>
  /\ UNCHANGED <<classifyVars, genVars, storeVars, saveVars>>

\* the texts the external service answers the page's requests with in this model
ClientAITexts ==
  { jsonText(AIData("AI Course", "An AI made course.", "Technology", "array",
                    GoodModules)),
    jsonText(AIData("AI Course", "An AI made course.", "", "array", GoodModules)),
    "I cannot help with that." }

\* the server starts on a request the page posted
GenerateCourse_FromClient(r) ==
  /\ r <= cSubmits
  /\ GenerateCourse_Accept(r, cSent[r])
  /\ UNCHANGED <<classifyVars, storeVars, saveVars, clientVars>>

\* the external service answers a request of the page
GenerateCourse_AIAnswersClient(r) == GenerateCourse_AIAnswersWith(r, ClientAITexts)

\* the curricula a page can hold after a generation, as setGeneratedCourse got them
ClientCourses ==
  { generateMockCourse([courseName |-> "Web Design", duration |-> 1,
                        difficulty |-> "beginner"]),
    mockCourse("Cooking", 8, "advanced"),
    generateCourseWithGemini(
      jsonText(AIData("AI Course", "An AI made course.", "Technology", "array", <<>>)),
      "Cooking", 2, "intermediate").course }

\* setGeneratedCourse at the end of a generation
Client_CourseGenerated ==
  /\ cPc = "idle"
  /\ ~cGenerated.shown
  /\ \E course \in ClientCourses :
       cGenerated' = [shown |-> TRUE, origin |-> "server", req |-> 0, course |-> course]
  /\ UNCHANGED <<cPc, cUser, cForm, cLoading, cToast, cLocation, cSubmits, cSent,
                 cOutcome, cSaves, cSaveSent, cSaveOutcome>>
  /\ UNCHANGED <<classifyVars, genVars, storeVars, saveVars>>

\* the JSON body of the save request: the course as held, with no fields added
saveBodyOf(course, userId) ==
  [course |-> [present |-> TRUE, title |-> course.title,
               description |-> course.description, duration |-> course.duration,
               difficulty |-> course.difficulty, category |-> course.category,
               outlineKind |-> "array", outline |-> course.outline,
               isAIGenerated |-> "absent", image |-> "", price |-> 0,
               createdBy |-> ""],
   userId |-> userId]

\* handleSaveCourse up to its await: it returns at once without a course,
\* otherwise it sets loading and posts the course to /save-course
Client_Save ==
  /\ cPc = "idle"
  /\ ~cLoading
  /\ cGenerated.shown
  /\ cSaves < Cardinality(Savers)
  /\ cLoading' = TRUE
  /\ cSaves' = cSaves + 1
  /\ cSaveSent' = [cSaveSent EXCEPT ![cSaves + 1] = saveBodyOf(cGenerated.course, cUser)]
  /\ cPc' = "awaitSave"
  /\ UNCHANGED <<cUser, cForm, cGenerated, cToast, cLocation, cSubmits, cSent, cOutcome,
                 cSaveOutcome>>
  /\ UNCHANGED <<classifyVars, genVars, storeVars, saveVars>>

\* the redirect done after a rejected post as well
Client_SaveFailed_Redirect(outcome, message) ==
  /\ cLoading' = FALSE
  /\ cToast' = [kind |-> "error", message |-> message]
  /\ cSaveOutcome' = [cSaveOutcome EXCEPT ![cSaves] = outcome]
  /\ cPc' = "gone"
  /\ cLocation' = sRes[cSaves].courseId

\* the catch branch of handleSaveCourse: loading reset and an error toast with
\* the server's message, or the page's own when there was no response
Client_SaveFailed(outcome, message) ==
  /\ cLoading' = FALSE
  /\ cToast' = [kind |-> "error", message |-> message]
  /\ cSaveOutcome' = [cSaveOutcome EXCEPT ![cSaves] = outcome]
  /\ cPc' = "idle"
  /\ UNCHANGED cLocation

\* the message field of saveCourse's error responses
saveMessage(status) ==
  IF status = 400 THEN "Please provide all required fields"
  ELSE IF status = 404 THEN "User not found"
  ELSE "Error saving course"

\* the response of the awaited save request arrives: a 201 resolves the post
\* and the page redirects to the course, any other status rejects it
Client_SaveResponse ==
  /\ cPc = "awaitSave"
  /\ sRes[cSaves].status # 0
  /\ IF sRes[cSaves].status = 201
     THEN /\ cToast' = [kind |-> "success", message |-> "Course saved successfully!"]
          /\ cLoading' = FALSE
          /\ cLocation' = sRes[cSaves].courseId
          /\ cSaveOutcome' = [cSaveOutcome EXCEPT ![cSaves] = Settled("response", 201)]
          /\ cPc' = "gone"
     ELSE Client_SaveFailed(Settled("response", sRes[cSaves].status),
                            saveMessage(sRes[cSaves].status))
  /\ UNCHANGED <<cUser, cForm, cGenerated, cSubmits, cSent, cOutcome, cSaves, cSaveSent>>
  /\ UNCHANGED <<classifyVars, genVars, storeVars, saveVars>>

\* the post fails without a response (the request or its response is lost)
Client_SaveNetworkError ==
  /\ cPc = "awaitSave"
  /\ Client_SaveFailed(Settled("network", 0), "Failed to save course")
  /\ UNCHANGED <<cUser, cForm, cGenerated, cSubmits, cSent, cOutcome, cSaves, cSaveSent>>
  /\ UNCHANGED <<classifyVars, genVars, storeVars, saveVars>>

\* the server starts on a save request the page posted
SaveCourse_FromClient(p) ==
  /\ p <= cSaves
  /\ SaveCourse_Accept(p, cSaveSent[p])
  /\ UNCHANGED <<classifyVars, genVars, clientVars>>

----------------------------------------------------------------------------
(* Classifier harness                                                      *)

TopicAlphabet == {"w", "e", "b", "u", "i", "A"}

RECURSIVE TopicsOfLen(_)
TopicsOfLen(n) ==
  IF n = 0 THEN {""} ELSE {s \o c : s \in TopicsOfLen(n - 1), c \in TopicAlphabet}

SampleTopics ==
  {"Machine Learning for Beginners", "Web Design", "UX for JavaScript", "Cooking",
   "PYTHON", "Business Analytics", "Marketing Data", "Build a Boat", "Maintenance",
   "Product Management", "Design Management", "Guitar"}

ClassifierTopics == SampleTopics \cup UNION {TopicsOfLen(n) : n \in 0..MaxTopicLen}

Categories == {"Programming", "Design", "Business", "Data Science", "Other"}

\* classify(topic)
Classify ==
  /\ cCategory = ""
  /\ \E t \in ClassifierTopics :
       /\ cTopic' = t
       /\ cCategory' = determineCourseCategory(t)
  /\ cAgain' = ""
  /\ UNCHANGED <<genVars, storeVars, saveVars, clientVars>>

\* classify(classify(topic))
ClassifyAgain ==
  /\ cCategory # ""
  /\ cAgain = ""
  /\ cAgain' = determineCourseCategory(cCategory)
  /\ UNCHANGED <<cTopic, cCategory, genVars, storeVars, saveVars, clientVars>>

----------------------------------------------------------------------------
(* Specifications                                                          *)

Init ==
  /\ cTopic = ""
  /\ cCategory = ""
  /\ cAgain = ""
  /\ gReq = [r \in GenRequests |-> NoBody]
  /\ gPc = [r \in GenRequests |-> "idle"]
  /\ gAI = [r \in GenRequests |-> NoAnswer]
  /\ gRes = [r \in GenRequests |-> NoResponse]
  /\ gAICalls = [r \in GenRequests |-> 0]
  /\ gMockRuns = [r \in GenRequests |-> 0]
  /\ aiCourses = <<>>
  /\ courses = <<>>
  /\ lectures = <<>>
  /\ sReq = [p \in Savers |-> [course |-> NoCurriculum, userId |-> ""]]
  /\ sPc = [p \in Savers |-> "idle"]
  /\ sCourseId = [p \in Savers |-> 0]
  /\ sNext = [p \in Savers |-> 0]
  /\ sLog = [p \in Savers |-> <<>>]
  /\ sRes = [p \in Savers |-> NoSaveResponse]
  /\ cPc = "unmounted"
  /\ cUser = ""
  /\ cForm = InitialForm
  /\ cLoading = FALSE
  /\ cGenerated = NoGenerated
  /\ cToast = NoToast
  /\ cLocation = 0
  /\ cSubmits = 0
  /\ cSent = [r \in GenRequests |-> NoBody]
  /\ cOutcome = [r \in GenRequests |-> NotSettled]
  /\ cSaves = 0
  /\ cSaveSent = [p \in Savers |-> [course |-> NoCurriculum, userId |-> ""]]
  /\ cSaveOutcome = [p \in Savers |-> NotSettled]

NextClassify == Classify \/ ClassifyAgain

\* one generate request on its own
NextGenerate ==
  \/ GenerateCourse_Receive(1)
  \/ GenerateCourse_FindUser(1)
  \/ GenerateCourse_AIAnswers(1)
  \/ GenerateCourse_AIThrows(1)
  \/ GenerateCourse_AISilent(1)

NextSave ==
  \E p \in Savers :
    \/ SaveCourse_Receive(p)
    \/ SaveCourse_FindUser(p)
    \/ SaveCourse_CreateAI(p)
    \/ SaveCourse_CreateCourse(p)
    \/ SaveCourse_CreateLecture(p)

SpecSave == Init /\ [][NextSave]_vars

SpecClassify == Init /\ [][NextClassify]_vars

SpecGenerate == Init /\ [][NextGenerate]_vars

\* User.findById settles, and the handler's continuation runs then; nothing is
\* assumed of the external service
FairSpecGenerate == SpecGenerate /\ WF_vars(GenerateCourse_FindUser(1))

\* the page generating, and the server answering its generate requests
NextClientGenerate ==
  \/ Client_Mount
  \/ Client_Edit
  \/ Client_Submit
  \/ Client_GenResponse
  \/ Client_GenTimeout
  \/ Client_GenNetworkError
  \/ \E r \in GenRequests :
       \/ GenerateCourse_FromClient(r)
       \/ GenerateCourse_FindUser(r)
       \/ GenerateCourse_AIAnswersClient(r)
       \/ GenerateCourse_AIThrows(r)
       \/ GenerateCourse_AISilent(r)

SpecClientGenerate == Init /\ [][NextClientGenerate]_vars

\* the timer of the post fires unless the post settled before
FairSpecClientGenerate == SpecClientGenerate /\ WF_vars(Client_GenTimeout)

\* the page saving a generated course, and the server answering its save requests
NextClientSave ==
  \/ Client_Mount
  \/ Client_CourseGenerated
  \/ Client_Save
  \/ Client_SaveResponse
  \/ Client_SaveNetworkError
  \/ \E p \in Savers :
       \/ SaveCourse_FromClient(p)
       \/ SaveCourse_FindUser(p)
       \/ SaveCourse_CreateAI(p)
       \/ SaveCourse_CreateCourse(p)
       \/ SaveCourse_CreateLecture(p)

SpecClientSave == Init /\ [][NextClientSave]_vars

----------------------------------------------------------------------------
(* Properties                                                              *)

AllowedDurations == {1, 2, 4, 8, 12}
Difficulties == {"beginner", "intermediate", "advanced"}

\* the request passed the field check and its owner exists
GenAccepted ==
  /\ gReq[1].courseName # ""
  /\ gReq[1].duration # 0
  /\ gReq[1].difficulty # ""
  /\ findUserById(gReq[1].userId) # ""

\* C1: a generate request with topic, duration and difficulty present and an
\* existing owner is answered 200 with a curriculum, whatever the adapter did;
\* after any adapter failure the curriculum is the fallback one: the
\* generator's outline for the same inputs, the classifier's category and the
\* templated description.
C1_GenerateNeverFails ==
  (gPc[1] = "done" /\ GenAccepted) =>
    /\ gRes[1].status = 200
    /\ gRes[1].course # NoCourse
    /\ gRes[1].course.title # ""
    /\ (gAI[1].error # "" =>
          /\ gRes[1].course.outline =
               generateMockOutline(gReq[1].courseName, gReq[1].duration, gReq[1].difficulty)
          /\ gRes[1].course.category = determineCourseCategory(gReq[1].courseName)
          /\ gRes[1].course.description =
               "A comprehensive " \o gReq[1].difficulty \o " level course on "
                 \o gReq[1].courseName \o " designed to be completed in "
                 \o NumStr(gReq[1].duration) \o " weeks."
          /\ gRes[1].course.title = gReq[1].courseName
          /\ gRes[1].course.duration = gReq[1].duration
          /\ gRes[1].course.difficulty = gReq[1].difficulty)

C1_Witness ==
  /\ gPc[1] = "done"
  /\ GenAccepted
  /\ gAI[1].error = "SchemaError"
  /\ gRes[1].status = 200
  /\ Len(gRes[1].course.outline) = 4

\* the documents of a collection that call p created
ByCall(store, p) == SelectSeq(store, LAMBDA d : d.by = p)

\* the Lecture.create calls that call p issued
LectureCalls(p) == SelectSeq(sLog[p], LAMBDA e : e.op = "Lecture")

Stored(op) == [op |-> op, result |-> "stored"]

\* C2: a save answered 201 for a curriculum of N modules issued exactly one
\* AICourse.create, then one Courses.create, then N Lecture.create calls in
\* module order, all stored; every lecture refers to the generic-course
\* document of that save, whose identifier is the one returned.
C2_SaveSequencing ==
  \A p \in Savers :
    sRes[p].status = 201 =>
      LET outline == sReq[p].course.outline
          n == Len(outline)
          myCourses == ByCall(courses, p)
          myLectures == ByCall(lectures, p)
      IN /\ sLog[p] = <<Stored("AICourse"), Stored("Courses")>>
                        \o [k \in 1..n |-> Stored("Lecture")]
         /\ Len(ByCall(aiCourses, p)) = 1
         /\ Len(myCourses) = 1
         /\ Len(myLectures) = n
         /\ \A k \in 1..n :
              /\ myLectures[k].title = outline[k].title
              /\ myLectures[k].description = outline[k].description
              /\ myLectures[k].course = myCourses[1].id
         /\ sRes[p].courseId = myCourses[1].id

C2_Witness ==
  \E p \in Savers :
    /\ sRes[p].status = 201
    /\ Len(sReq[p].course.outline) = 4
    /\ Len(ByCall(lectures, p)) = 4

\* the k-th Lecture.create of call p was rejected
LectureRejected(p) ==
  /\ Len(sLog[p]) > 0
  /\ sLog[p][Len(sLog[p])] = [op |-> "Lecture", result |-> "rejected"]

\* C3: when the k-th lecture write of a save is rejected, the AI-course
\* document, the generic-course document and the k-1 lectures written before
\* are in the stores, no further write is attempted, and the call answers 500
\* without a course identifier.
C3_PartialFailureNoRollback ==
  \A p \in Savers :
    LectureRejected(p) =>
      LET k == Len(LectureCalls(p))
          outline == sReq[p].course.outline
          myLectures == ByCall(lectures, p)
      IN /\ Len(ByCall(aiCourses, p)) = 1
         /\ Len(ByCall(courses, p)) = 1
         /\ Len(myLectures) = k - 1
         /\ \A i \in 1..(k - 1) : myLectures[i].title = outline[i].title
         /\ sPc[p] = "done"
         /\ sRes[p] = [status |-> 500, courseId |-> 0]

C3_Witness ==
  \E p \in Savers :
    /\ LectureRejected(p)
    /\ Len(sReq[p].course.outline) = 4
    /\ Len(LectureCalls(p)) = 3
    /\ Len(ByCall(lectures, p)) = 2
    /\ Len(ByCall(courses, p)) = 1

\* C4: a save answered 400 or 404 issued no create call and left no document
\* in the AI-course, generic-course or lecture store.
C4_RejectedSaveWritesNothing ==
  \A p \in Savers :
    sRes[p].status \in {400, 404} =>
      /\ sLog[p] = <<>>
      /\ ByCall(aiCourses, p) = <<>>
      /\ ByCall(courses, p) = <<>>
      /\ ByCall(lectures, p) = <<>>

C4_Witness ==
  /\ sRes[1].status = 404
  /\ sRes[2].status = 400
  /\ sReq[2].course.present

\* C5: for a duration in {1, 2, 4, 8, 12} and a difficulty in {beginner,
\* intermediate, advanced} the fallback outline has 3 to 6 modules, each with
\* exactly 4, 5 or 6 topics by difficulty.
C5_OutlineShape ==
  (gRes[1].tier = "mock" /\ gReq[1].duration \in AllowedDurations
     /\ gReq[1].difficulty \in Difficulties) =>
    /\ Len(gRes[1].course.outline) \in 3..6
    /\ \A k \in 1..Len(gRes[1].course.outline) :
         Len(gRes[1].course.outline[k].topics) =
           CASE gReq[1].difficulty = "beginner" -> 4
             [] gReq[1].difficulty = "intermediate" -> 5
             [] gReq[1].difficulty = "advanced" -> 6

C5_Witness ==
  /\ gRes[1].tier = "mock"
  /\ gReq[1].duration = 1
  /\ gReq[1].difficulty = "advanced"
  /\ Len(gRes[1].course.outline) = 3
  /\ Len(gRes[1].course.outline[3].topics) = 6

\* C6: every curriculum answered with 200 has 3 to 6 modules and every module
\* has at least one topic.
C6_CurriculumInvariant ==
  gRes[1].status = 200 =>
    /\ Len(gRes[1].course.outline) \in 3..6
    /\ \A k \in 1..Len(gRes[1].course.outline) : Len(gRes[1].course.outline[k].topics) >= 1

\* the keyword groups in the order of the contract
KeywordGroups ==
  << [category |-> "Programming",
      keywords |-> {"programming", "coding", "development", "javascript", "python",
                    "java", "web"}],
     [category |-> "Design", keywords |-> {"design", "ui", "ux"}],
     [category |-> "Business", keywords |-> {"business", "marketing", "management"}],
     [category |-> "Data Science",
      keywords |-> {"data", "machine learning", "ai", "analytics"}] >>

GroupMatches(topic, g) ==
  \E k \in KeywordGroups[g].keywords : includes(toLowerCase(topic), k)

\* C7: the classifier answers for every topic; the answer is the category of
\* the first group, in the order Programming, Design, Business, Data Science,
\* with a keyword occurring in the topic regardless of case, and Other when no
\* group has one.
C7_FirstMatchingGroupWins ==
  cCategory # "" =>
    LET matching == {g \in 1..Len(KeywordGroups) : GroupMatches(cTopic, g)} IN
    IF matching = {} THEN cCategory = "Other"
    ELSE cCategory = KeywordGroups[MinOf(matching)].category

C7_Witness ==
  /\ GroupMatches(cTopic, 1)
  /\ GroupMatches(cTopic, 2)
  /\ cTopic # toLowerCase(cTopic)
  /\ cCategory = "Programming"

\* C8: the classifier's answer is one of the five categories, and classifying
\* the answer gives the same category.
C8_ClassifierIdempotent ==
  /\ cCategory # "" => cCategory \in Categories
  /\ cAgain # "" => cAgain = cCategory

C8_Witness ==
  /\ cCategory = "Data Science"
  /\ cAgain = "Data Science"

\* the fallback answered the request of the end-to-end example
MLExample ==
  /\ gRes[1].tier = "mock"
  /\ gReq[1].courseName = "Machine Learning for Beginners"
  /\ gReq[1].duration = 4
  /\ gReq[1].difficulty = "beginner"

C10_IndependentBundles ==
  /\ \A i, j \in 1..Len(courses) : courses[i].id = courses[j].id => i = j
  /\ \A i, j \in 1..Len(aiCourses) : aiCourses[i].id = aiCourses[j].id => i = j
  /\ \A p \in Savers :
       /\ Len(ByCall(aiCourses, p)) <= 1
       /\ Len(ByCall(courses, p)) <= 1
       /\ \A i \in 1..Len(lectures) :
            lectures[i].by = p =>
              \E c \in 1..Len(courses) :
                courses[c].id = lectures[i].course /\ courses[c].by = p
       /\ sRes[p].status = 201 =>
            /\ Len(ByCall(aiCourses, p)) = 1
            /\ Len(ByCall(courses, p)) = 1
            /\ Len(ByCall(lectures, p)) = Len(sReq[p].course.outline)
            /\ sRes[p].courseId = ByCall(courses, p)[1].id
  /\ (sRes[1].status = 201 /\ sRes[2].status = 201) => sRes[1].courseId # sRes[2].courseId

C10_Witness ==
  /\ sRes[1].status = 201
  /\ sRes[2].status = 201
  /\ sReq[1].userId = sReq[2].userId
  /\ aiCourses[1].by # courses[1].by
  /\ Len(lectures) >= 4
  /\ lectures[1].by # lectures[2].by
  /\ lectures[2].by # lectures[3].by
  /\ lectures[3].by # lectures[4].by

\* C11: a generate request that lacks the topic, the duration, the difficulty
\* or the owner is answered 400, one that names an owner that does not exist is
\* answered 404, and in both cases model.generateContent was not called and
\* the fallback branch did not run.
C11_MissingFieldOrOwner ==
  gPc[1] = "done" =>
    /\ (gReq[1].courseName = "" \/ gReq[1].duration = 0 \/ gReq[1].difficulty = ""
          \/ gReq[1].userId = "") =>
         (gRes[1].status = 400 /\ gAICalls[1] = 0 /\ gMockRuns[1] = 0)
    /\ (gReq[1].courseName # "" /\ gReq[1].duration # 0 /\ gReq[1].difficulty # ""
          /\ gReq[1].userId # "" /\ findUserById(gReq[1].userId) = "") =>
         (gRes[1].status = 404 /\ gAICalls[1] = 0 /\ gMockRuns[1] = 0)

\* C12: the page is redirected to /course/{id} only after its save request was
\* answered 201 with that id, and the generic-course document with that id
\* exists then; a save request that failed (400, 404, 500 or no response) leaves
\* the page with an error toast carrying a message, no redirect, and loading
\* reset to false.
C12_RedirectOnlyToSavedCourse ==
  /\ cLocation # 0 =>
       /\ cSaveOutcome[cSaves] = Settled("response", 201)
       /\ sRes[cSaves] = [status |-> 201, courseId |-> cLocation]
       /\ \E i \in 1..Len(courses) : courses[i].id = cLocation
  /\ (cSaves > 0 /\ cSaveOutcome[cSaves].kind # "none"
        /\ cSaveOutcome[cSaves] # Settled("response", 201)) =>
       /\ cPc = "idle"
       /\ cToast.kind = "error"
       /\ cToast.message # ""
       /\ cLocation = 0
       /\ ~cLoading

C12_Witness ==
  /\ cSaves = 2
  /\ cSaveOutcome[1] = Settled("response", 500)
  /\ cPc = "gone"
  /\ cLocation # 0
  /\ ~cLoading

\* the external service answered the request with a text whose extracted span
\* parses to a JSON object
ParsedAnswer(r) ==
  /\ gAI[r].kind = "text"
  /\ jsonMatch(gAI[r].text) # ""
  /\ parses(jsonMatch(gAI[r].text))

\* C13: an answer whose parsed JSON lacks the title or the description, or
\* whose outline is missing, not an array or an empty array, is rejected as a
\* SchemaError: the request is answered from the fallback tier, and no
\* curriculum answered carries an empty outline of the AI answer.
C13_SchemaRejects ==
  (gPc[1] = "done" /\ ParsedAnswer(1)) =>
    LET courseData == JSONparse(jsonMatch(gAI[1].text)) IN
    (courseData.title = "" \/ courseData.description = ""
       \/ courseData.outlineKind # "array" \/ Len(courseData.outline) = 0) =>
      /\ gAI[1].error = "SchemaError"
      /\ gRes[1].tier = "mock"
      /\ gRes[1].course.outline # <<>>

\* the text holds no "{"
NoBrace(text) == positionsOf(text, "{") = {}

\* C14: the adapter parses the first balanced {...} span of the answer: when
\* that span is a JSON object, possibly after prose and before further text
\* with braces of its own, the adapter's result is that of this object (no
\* ParseError; a course with the object's title, description and outline
\* length when the object is valid); an answer without "{" is a ParseError.
C14_FirstBalancedSpan ==
  (gPc[1] = "done" /\ gAI[1].kind = "text") =>
    LET span == jsonMatch_Balanced(gAI[1].text) IN
    /\ (span # "" /\ parses(span)) =>
         /\ gAI[1].error # "ParseError"
         /\ gAI[1].error = "" =>
              /\ gRes[1].course.title = JSONparse(span).title
              /\ gRes[1].course.description = JSONparse(span).description
              /\ Len(gRes[1].course.outline) = Len(JSONparse(span).outline)
    /\ NoBrace(gAI[1].text) => gAI[1].error = "ParseError"

\* C15: within one generate request model.generateContent is called at most
\* once; the fallback branch runs at most once, only after that call has been
\* made and has failed (it threw, or its answer did not pass the adapter), and
\* never when the call succeeded.
C15_OneCallThenFallback ==
  /\ gAICalls[1] <= 1
  /\ gMockRuns[1] <= 1
  /\ gMockRuns[1] = 1 => (gAICalls[1] = 1 /\ gAI[1].error # "")
  /\ (gAI[1].kind = "text" /\ gAI[1].error = "") =>
       (gMockRuns[1] = 0 /\ gRes[1].tier = "ai")
  /\ gRes[1].tier = "mock" => gMockRuns[1] = 1
  /\ gPc[1] \in {"idle", "findUser"} => (gAICalls[1] = 0 /\ gMockRuns[1] = 0)

C15_Witness ==
  /\ gPc[1] = "done"
  /\ gAI[1].kind = "throw"
  /\ gAICalls[1] = 1
  /\ gMockRuns[1] = 1
  /\ gRes[1].tier = "mock"

\* C16: the await of model.generateContent is bounded by a timeout: a request
\* whose call of the external service is never answered is eventually answered
\* 200 with the fallback curriculum.
C16_AwaitIsBounded ==
  (gPc[1] = "awaitAI" /\ gAI[1].kind = "silent") ~>
    (gPc[1] = "done" /\ gRes[1].status = 200 /\ gRes[1].tier = "mock")

\* the curriculum generateCourse answers request r with, from r's own body and
\* r's own call of the external service
OwnCurriculum(r) ==
  IF gRes[r].tier = "ai"
  THEN generateCourseWithGemini(gAI[r].text, gReq[r].courseName, gReq[r].duration,
                                gReq[r].difficulty).course
  ELSE mockCourse(gReq[r].courseName, gReq[r].duration, gReq[r].difficulty)

\* C17: after the timeout of a generate request has fired and the page shows
\* its fallback curriculum, the server's late answer to that request does not
\* replace it: while the curriculum shown is that request's, it is the page's
\* fallback for the form posted.  The late result is not merged into another
\* request either: every 200 answer carries the curriculum of its own body and
\* its own call of the external service, and a curriculum shown from a
\* response is the one the server answered the request awaited with.
C17_LateResultDiscarded ==
  /\ \A r \in GenRequests :
       (cOutcome[r].kind = "timeout" /\ cGenerated.req = r) =>
          /\ cGenerated.origin = "client"
          /\ cGenerated.course = generateMockCourse(cSent[r])
  /\ \A r \in GenRequests :
       gRes[r].status = 200 =>
          /\ gReq[r] = cSent[r]
          /\ gRes[r].course = OwnCurriculum(r)
  /\ (cGenerated.shown /\ cGenerated.origin = "server") =>
       /\ cOutcome[cGenerated.req] = Settled("response", 200)
       /\ cGenerated.course = gRes[cGenerated.req].course

C17_Witness ==
  /\ cOutcome[1].kind = "timeout"
  /\ gRes[1].status = 200
  /\ gRes[1].tier = "ai"
  /\ cOutcome[2] = Settled("response", 200)
  /\ gRes[2].tier = "ai"
  /\ gAI[2].text # gAI[1].text
  /\ cGenerated.req = 2

\* C18: every AI-course document written by a save has the provenance flag
\* true and the owner of the save request as createdBy, whatever the submitted
\* curriculum holds, its own provenance flag or owner included.
C18_ProvenanceAndOwner ==
  \A i \in 1..Len(aiCourses) :
    /\ aiCourses[i].isAIGenerated = "true"
    /\ aiCourses[i].createdBy = sReq[aiCourses[i].by].userId

\* the template table of the module titles, by module index
TemplateTitle(X, i) ==
  CASE i = 0 -> "Introduction to " \o X
    [] i = 1 -> "Getting Started with " \o X \o " Development"
    [] i = 2 -> "Advanced Concepts in " \o X
    [] i = 3 -> "Practical Applications of " \o X
    [] OTHER -> "Mastering " \o X

SubmitEnded ==
  /\ cPc = "idle"
  /\ ~cLoading
  /\ cGenerated.shown
  /\ cGenerated.req = cSubmits
  /\ cGenerated.course # NoCourse
  /\ cToast.kind = "success"

\* C20: a submission with a topic ends: the page leaves the await with loading
\* false, a curriculum shown and a success toast, whatever became of the
\* request (a 200, an error status, a network failure or the timeout); when
\* the request did not end in a 200 the curriculum shown is the page's own
\* fallback for the form submitted, and with a 200 it is the server's.
C20_SubmitAlwaysEnds ==
  /\ [](\A r \in GenRequests :
          (cOutcome[r].kind # "none" /\ cGenerated.req = r) =>
             IF cOutcome[r] = Settled("response", 200)
             THEN /\ cGenerated.origin = "server"
                  /\ cGenerated.course = gRes[r].course
             ELSE /\ cGenerated.origin = "client"
                  /\ cGenerated.course = generateMockCourse(cSent[r]))
  /\ []((cSubmits > 0 /\ cOutcome[cSubmits].kind # "none") => SubmitEnded)
  /\ (cPc = "awaitGen") ~> SubmitEnded

C20_Witness ==
  /\ cOutcome[1] = Settled("response", 404)
  /\ cOutcome[2].kind = "timeout"
  /\ gAI[2].kind = "none"
  /\ SubmitEnded
  /\ cGenerated.origin = "client"

\* C21: the page's fallback generator and the server's fallback generator give
\* the same curriculum for the same topic, duration and difficulty: when the
\* page has shown its own fallback for a request and the server has answered
\* that request from its fallback branch, the two curricula are equal (title,
\* description, category, and the modules' titles, descriptions and topics in
\* order).
C21_FallbackGeneratorsEquivalent ==
  \A r \in GenRequests :
    (cGenerated.origin = "client" /\ cGenerated.req = r /\ gRes[r].tier = "mock") =>
      cGenerated.course = gRes[r].course

====
